---- MODULE Spec2Model ----
(***************************************************************************)
(* Model of the exercise-enrichment pipeline of                            *)
(* transfit_enrich_exercises.py: the research topic tagger, the exercise   *)
(* topic inferencer, the research context builder and the generation loop  *)
(* of main(), with the three stores (research, exercises + staging, tips)  *)
(* and the generative service as the environment.                          *)
(*                                                                         *)
(* Text is modelled by TLA+ strings; substring search, lower-casing,       *)
(* stripping and number formatting are computed character by character.    *)
(* A nullable attribute (Python None / SQL null) is modelled as an option: *)
(* None is the empty tuple and Some(v) the one-element tuple <<v>>.        *)
(***************************************************************************)
EXTENDS Integers, Sequences, FiniteSets, TLC

----------------------------------------------------------------------------
(* Bounds of the model. *)

\* longest exercise catalog drawn for a run
MaxExercises == 2

\* largest value of the MAX_EXERCISES setting that is drawn
MaxLimit == 1

\* number of pipeline runs started in one behaviour
MaxRuns == 2

\* longest research table drawn for the tagger and the context builder
MaxRows == 2

\* number of times a helper is called with the same arguments
MaxCalls == 2

----------------------------------------------------------------------------
(* Options and Python truthiness. *)

None == <<>>

Some(v) == <<v>>

\* Python `o or ""` for a nullable string
OrEmpty(o) == IF o = None THEN "" ELSE o[1]

\* Python `o or d` for a nullable string and a string default
OrDefault(o, d) == IF o = None THEN d ELSE IF o[1] = "" THEN d ELSE o[1]

\* Python truthiness of a nullable boolean
Truthy(o) == IF o = None THEN FALSE ELSE o[1]

\* Python truthiness of a nullable string
TruthyStr(o) == IF o = None THEN FALSE ELSE o[1] # ""

----------------------------------------------------------------------------
(* Text. *)

\* str.lower() on one character
LowerChar(c) ==
    CASE c = "A" -> "a" [] c = "B" -> "b" [] c = "C" -> "c" [] c = "D" -> "d"
      [] c = "E" -> "e" [] c = "F" -> "f" [] c = "G" -> "g" [] c = "H" -> "h"
      [] c = "I" -> "i" [] c = "J" -> "j" [] c = "K" -> "k" [] c = "L" -> "l"
      [] c = "M" -> "m" [] c = "N" -> "n" [] c = "O" -> "o" [] c = "P" -> "p"
      [] c = "Q" -> "q" [] c = "R" -> "r" [] c = "S" -> "s" [] c = "T" -> "t"
      [] c = "U" -> "u" [] c = "V" -> "v" [] c = "W" -> "w" [] c = "X" -> "x"
      [] c = "Y" -> "y" [] c = "Z" -> "z" [] OTHER -> c

RECURSIVE Lower(_)
\* str.lower()
Lower(s) ==
    IF s = "" THEN ""
    ELSE LowerChar(SubSeq(s, 1, 1)) \o Lower(SubSeq(s, 2, Len(s)))

\* Python `k in text` on strings
Contains(text, k) ==
    \E i \in 1..(Len(text) - Len(k) + 1) : SubSeq(text, i, i + Len(k) - 1) = k

IsSpace(c) == c \in {" ", "\n", "\t", "\r"}

RECURSIVE LStrip(_)
LStrip(s) ==
    IF s = "" THEN ""
    ELSE IF IsSpace(SubSeq(s, 1, 1)) THEN LStrip(SubSeq(s, 2, Len(s)))
    ELSE s

RECURSIVE RStrip(_)
RStrip(s) ==
    IF s = "" THEN ""
    ELSE IF IsSpace(SubSeq(s, Len(s), Len(s))) THEN RStrip(SubSeq(s, 1, Len(s) - 1))
    ELSE s

\* str.strip()
Strip(s) == RStrip(LStrip(s))

Digit(d) ==
    CASE d = 0 -> "0" [] d = 1 -> "1" [] d = 2 -> "2" [] d = 3 -> "3"
      [] d = 4 -> "4" [] d = 5 -> "5" [] d = 6 -> "6" [] d = 7 -> "7"
      [] d = 8 -> "8" [] d = 9 -> "9"

RECURSIVE NatStr(_)
NatStr(n) == IF n < 10 THEN Digit(n) ELSE NatStr(n \div 10) \o Digit(n % 10)

\* f"{n}" for an integer
IntStr(n) == IF n < 0 THEN "-" \o NatStr(0 - n) ELSE NatStr(n)

\* f"{o}" for a nullable string
FmtStr(o) == IF o = None THEN "None" ELSE o[1]

RECURSIVE Join(_, _)
\* sep.join(lines)
Join(sep, lines) ==
    IF lines = <<>> THEN ""
    ELSE IF Len(lines) = 1 THEN lines[1]
    ELSE lines[1] \o sep \o Join(sep, Tail(lines))

\* the elements of a list
Range(s) == {s[i] : i \in DOMAIN s}

----------------------------------------------------------------------------
(* Topic vocabulary. *)

\* the keys of TOPIC_KEYWORDS, in the dict's insertion order
TOPIC_ORDER ==
    <<"hrt_strength", "bone_health", "top_surgery", "cardio_risk", "mental_health">>

TOPIC_KEYWORDS(topic) ==
    CASE topic = "hrt_strength" ->
           <<"hormone", "androgen", "testosterone", "estradiol",
             "sex steroid", "muscle strength", "lean mass">>
      [] topic = "bone_health" ->
           <<"bone density", "bmd", "osteoporosis", "fracture", "bone mineral">>
      [] topic = "top_surgery" ->
           <<"mastectomy", "top surgery", "chest surgery", "breast surgery">>
      [] topic = "cardio_risk" ->
           <<"cardiovascular", "cardio", "aerobic", "heart disease", "hypertension">>
      [] topic = "mental_health" ->
           <<"depression", "anxiety", "mental health", "distress", "dysphoria">>

----------------------------------------------------------------------------
(* Research topic tagger. *)

\* any(k.lower() in text for k in keywords)
KeywordHit(text, keywords) ==
    \E j \in DOMAIN keywords : Contains(text, Lower(keywords[j]))

\* variant: the text is not lowercased
tag_topics_for_research_row_no_lower(row) ==
    LET text == FmtStr(row.title) \o " " \o FmtStr(row.takeaways)
    IN  SelectSeq(TOPIC_ORDER, LAMBDA t : KeywordHit(text, TOPIC_KEYWORDS(t)))

\* the list of topics for one research row, in TOPIC_KEYWORDS order
tag_topics_for_research_row(row) ==
    LET text == Lower(FmtStr(row.title) \o " " \o FmtStr(row.takeaways))
    IN  SelectSeq(TOPIC_ORDER, LAMBDA t : KeywordHit(text, TOPIC_KEYWORDS(t)))

\* the title and takeaways of the research rows that are drawn
ArticleTexts ==
    {[title |-> Some("Effects of testosterone on muscle strength in trans men"),
      takeaways |-> Some("increased lean mass")],
     [title |-> Some("Outcomes after Chest Surgery"), takeaways |-> None],
     [title |-> Some("Bone mineral density in adolescents"),
      takeaways |-> Some("BMD z-scores fall")],
     [title |-> Some("Sleep quality in shift workers"),
      takeaways |-> Some("no association found")],
     [title |-> Some("Testosterone therapy and fracture risk"), takeaways |-> None],
     [title |-> Some("Twelve-week cohort follow-up"), takeaways |-> None],
     [title |-> None, takeaways |-> Some("")]}

\* tag_topics_for_research_row, tabulated once over the texts that are drawn
TagTable == [t \in ArticleTexts |-> tag_topics_for_research_row(t)]

\* the topics of a row: looked up when tabulated, computed otherwise
RowTopics(row) ==
    LET t == [title |-> row.title, takeaways |-> row.takeaways]
    IN  IF t \in ArticleTexts THEN TagTable[t] ELSE tag_topics_for_research_row(row)

\* variant: the update is made for every non-empty computed list
TopicsChanged_nonempty(stored, topics) == topics # <<>>

\* the test that guards the tagger's write
TopicsChanged(stored, topics) == topics # <<>> /\ stored # Some(topics)

\* one iteration of the tagger's loop: the row as stored and returned afterwards
TaggedRow(row) ==
    LET topics == RowTopics(row)
    IN  IF TopicsChanged(row.topics, topics)
        THEN [row EXCEPT !.topics = Some(topics), !.processed = TRUE]
        ELSE row

\* the research table after update_research_topics()
TaggedTable(table) ==
    [k \in DOMAIN table |->
        IF table[k].relevant THEN TaggedRow(table[k]) ELSE table[k]]

\* the research table when the tagger's loop is done with the rows up to n
TaggedUpTo(table, n) ==
    [k \in DOMAIN table |->
        IF k <= n /\ table[k].relevant THEN TaggedRow(table[k]) ELSE table[k]]

\* the rows of a table that the select with relevant = true returns
RelevantRows(table) == SelectSeq(table, LAMBDA row : row.relevant)

\* the rows for which the tagger's loop makes the update call
WritePoints(table) ==
    {k \in DOMAIN table :
        table[k].relevant /\ TopicsChanged(table[k].topics, RowTopics(table[k]))}

\* history only: what one iteration of the tagger's loop read, computed and did
TagEntry(row) ==
    [id     |-> row.id,
     stored |-> row.topics,
     topics |-> RowTopics(row),
     wrote  |-> TopicsChanged(row.topics, RowTopics(row))]

\* history only: the iterations over the relevant rows among the first n
TagEntries(table, n) ==
    LET rows == RelevantRows(SubSeq(table, 1, n))
    IN  [k \in DOMAIN rows |-> TagEntry(rows[k])]

----------------------------------------------------------------------------
(* Exercise catalog. *)

RECURSIVE StagingBySlug(_, _)
\* staging_by_slug.get(slug): the last staging row with that slug, rows with an
\* empty slug left out; None when there is none
StagingBySlug(staging, slug) ==
    IF staging = <<>> THEN None
    ELSE LET last == staging[Len(staging)]
         IN  IF TruthyStr(last.slug) /\ last.slug = Some(slug)
             THEN Some(last)
             ELSE StagingBySlug(SubSeq(staging, 1, Len(staging) - 1), slug)

\* one exercise row joined with its staging metadata
JoinExercise(ex, staging) ==
    LET s == StagingBySlug(staging, ex.slug)
    IN  [id                |-> ex.id,
         slug              |-> ex.slug,
         pattern           |-> ex.pattern,
         goal              |-> ex.goal,
         binder_aware      |-> ex.binder_aware,
         pelvic_floor_safe |-> ex.pelvic_floor_safe,
         body_parts        |-> IF s = None THEN None ELSE s[1].body_parts,
         exercise_type     |-> IF s = None THEN None ELSE s[1].exercise_type]

\* the exercise list load_exercises() returns
load_exercises(exTable, staging) ==
    [k \in DOMAIN exTable |-> JoinExercise(exTable[k], staging)]

\* variant: the first rule that applies decides
infer_topics_for_exercise_first_match(ex) ==
    LET pattern       == Lower(OrEmpty(ex.pattern))
        goal          == Lower(OrEmpty(ex.goal))
        exercise_type == Lower(OrEmpty(ex.exercise_type))
        body_parts    == Lower(OrEmpty(ex.body_parts))
    IN  IF pattern \in {"hinge", "squat", "lunge", "carry", "gait", "core"}
        THEN {"hrt_strength", "bone_health"}
        ELSE IF goal = "conditioning" \/ exercise_type \in {"cardio", "plyometrics"}
        THEN {"cardio_risk"}
        ELSE IF goal \in {"mobility", "recovery"}
        THEN {"bone_health", "top_surgery"}
        ELSE IF \/ \E k \in {"chest", "shoulder", "upper arm"} : Contains(body_parts, k)
                \/ Truthy(ex.binder_aware)
        THEN {"top_surgery"}
        ELSE IF ~Truthy(ex.pelvic_floor_safe) THEN {"hrt_strength"}
        ELSE {}

\* variant: the binder rule adds a tag that is not in the vocabulary
infer_topics_for_exercise_binding_tag(ex) ==
    LET pattern == Lower(OrEmpty(ex.pattern))
        goal    == Lower(OrEmpty(ex.goal))
    IN  (IF pattern \in {"hinge", "squat", "lunge", "carry", "gait", "core"}
         THEN {"hrt_strength", "bone_health"} ELSE {})
        \cup
        (IF goal \in {"mobility", "recovery"}
         THEN {"bone_health", "top_surgery"} ELSE {})
        \cup
        (IF Truthy(ex.binder_aware) THEN {"binding"} ELSE {})
        \cup
        (IF ~Truthy(ex.pelvic_floor_safe) THEN {"hrt_strength"} ELSE {})

\* the set of topics inferred for an exercise
infer_topics_for_exercise(ex) ==
    LET pattern       == Lower(OrEmpty(ex.pattern))
        goal          == Lower(OrEmpty(ex.goal))
        exercise_type == Lower(OrEmpty(ex.exercise_type))
        body_parts    == Lower(OrEmpty(ex.body_parts))
    IN  (IF pattern \in {"hinge", "squat", "lunge", "carry", "gait"}
         THEN {"hrt_strength", "bone_health"} ELSE {})
        \cup
        (IF pattern = "core" THEN {"hrt_strength", "bone_health"} ELSE {})
        \cup
        (IF goal = "conditioning" \/ exercise_type \in {"cardio", "plyometrics"}
         THEN {"cardio_risk"} ELSE {})
        \cup
        (IF goal \in {"mobility", "recovery"}
         THEN {"bone_health", "top_surgery"} ELSE {})
        \cup
        (IF \E k \in {"chest", "shoulder", "upper arm"} : Contains(body_parts, k)
         THEN {"top_surgery"} ELSE {})
        \cup
        (IF Truthy(ex.binder_aware) THEN {"top_surgery"} ELSE {})
        \cup
        (IF ~Truthy(ex.pelvic_floor_safe) THEN {"hrt_strength"} ELSE {})

----------------------------------------------------------------------------
(* Research context builder. *)

\* any(t in row_topics for t in exercise_topics), row_topics = row["topics"] or []
RowMatches(row, exercise_topics) ==
    LET row_topics == IF row.topics = None THEN <<>> ELSE row.topics[1]
    IN  \E t \in exercise_topics : t \in Range(row_topics)

RECURSIVE MatchLoop_stop_at_miss(_, _, _, _, _)
\* variant: the scan ends at the first row that does not match
MatchLoop_stop_at_miss(research_rows, k, matched, exercise_topics, max_articles) ==
    IF k > Len(research_rows) THEN matched
    ELSE IF ~RowMatches(research_rows[k], exercise_topics) THEN matched
    ELSE LET m2 == Append(matched, research_rows[k])
         IN  IF Len(m2) >= max_articles THEN m2
             ELSE MatchLoop_stop_at_miss(research_rows, k + 1, m2,
                                         exercise_topics, max_articles)

RECURSIVE MatchLoop(_, _, _, _, _)
\* the selection loop from row k on, with `matched` collected so far
MatchLoop(research_rows, k, matched, exercise_topics, max_articles) ==
    IF k > Len(research_rows) THEN matched
    ELSE LET m2 == IF RowMatches(research_rows[k], exercise_topics)
                   THEN Append(matched, research_rows[k])
                   ELSE matched
         IN  IF Len(m2) >= max_articles THEN m2
             ELSE MatchLoop(research_rows, k + 1, m2, exercise_topics, max_articles)

\* the rows selected for the context
MatchedRows(research_rows, exercise_topics, max_articles) ==
    MatchLoop(research_rows, 1, <<>>, exercise_topics, max_articles)

\* one rendered line of the context
ContextLine(r) ==
    LET journal   == OrDefault(r.journal, "n.d.")
        title     == OrDefault(r.title, "Untitled")
        takeaways == IF TruthyStr(r.takeaways) THEN r.takeaways[1]
                     ELSE OrEmpty(r.summary)
        year      == IF r.year # None THEN IntStr(r.year[1]) ELSE "n.d."
    IN  "- " \o title \o " (" \o year \o ", " \o journal \o "): " \o takeaways

\* variant: a DOI is listed once
DoisOf_dedup(matched) ==
    LET withDoi == SelectSeq(matched, LAMBDA r : TruthyStr(r.doi))
        first   == {k \in DOMAIN withDoi :
                       \A j \in 1..(k - 1) : withDoi[j].doi # withDoi[k].doi}
        kept    == SelectSeq(withDoi, LAMBDA r : \E k \in first : withDoi[k] = r)
    IN  [k \in DOMAIN kept |-> kept[k].doi[1]]

\* the DOIs of the rows that have one
DoisOf(matched) ==
    LET withDoi == SelectSeq(matched, LAMBDA r : TruthyStr(r.doi))
    IN  [k \in DOMAIN withDoi |-> withDoi[k].doi[1]]

\* the default of the max_articles parameter
DEFAULT_MAX_ARTICLES == 6

\* <<context text, dois>>
build_research_context_for_topics(research_rows, exercise_topics, max_articles) ==
    IF exercise_topics = {} THEN <<"", <<>>>>
    ELSE LET matched == MatchedRows(research_rows, exercise_topics, max_articles)
         IN  IF matched = <<>> THEN <<"", <<>>>>
             ELSE <<Join("\n", [k \in DOMAIN matched |-> ContextLine(matched[k])]),
                    DoisOf(matched)>>

----------------------------------------------------------------------------
(* Tip store and generative service. *)

\* the keys of the object the prompt asks for
REQUIRED_KEYS ==
    {"form_focus", "hrt_considerations", "binding_considerations",
     "post_op_considerations", "gender_affirming_modifications",
     "general_safety", "disclaimer", "source_dois"}

\* What a call of the chat-completions service followed by json.loads can do:
\* raise (network error, quota, unparseable content), or return a JSON object,
\* modelled by its set of keys: the empty object, an object without
\* "disclaimer", the object asked for.
GeneratorResponses ==
    {[raises |-> TRUE, keys |-> {}],
     [raises |-> FALSE, keys |-> {}],
     [raises |-> FALSE, keys |-> REQUIRED_KEYS \ {"disclaimer"}],
     [raises |-> FALSE, keys |-> REQUIRED_KEYS]}

\* variant: the test of the count is `> 1`
exercise_already_has_tips_off_by_one(table, exercise_id, population, context) ==
    Cardinality({k \in DOMAIN table :
                    /\ table[k].exercise_id = exercise_id
                    /\ table[k].population = population
                    /\ table[k].context = context}) > 1

\* variant: only records that have been reviewed are counted
exercise_already_has_tips_reviewed(table, exercise_id, population, context) ==
    Cardinality({k \in DOMAIN table :
                    /\ table[k].exercise_id = exercise_id
                    /\ table[k].population = population
                    /\ table[k].context = context
                    /\ ~table[k].needs_review}) > 0

\* the count query of exercise_already_has_tips on a tips table
exercise_already_has_tips(table, exercise_id, population, context) ==
    Cardinality({k \in DOMAIN table :
                    /\ table[k].exercise_id = exercise_id
                    /\ table[k].population = population
                    /\ table[k].context = context}) > 0

\* the row main() inserts
TipRecord(exercise_id, population, context, tips_json, dois) ==
    [exercise_id  |-> exercise_id,
     population   |-> population,
     context      |-> context,
     tips         |-> tips_json,
     source_dois  |-> dois,
     needs_review |-> TRUE]

----------------------------------------------------------------------------
(* Inputs: the stored rows a behaviour starts from. *)

ExSquat ==
    [id |-> 1, slug |-> "barbell-squat", pattern |-> Some("squat"),
     goal |-> Some("strength"), binder_aware |-> Some(FALSE),
     pelvic_floor_safe |-> Some(TRUE)]

ExStretch ==
    [id |-> 2, slug |-> "doorway-stretch", pattern |-> None,
     goal |-> Some("mobility"), binder_aware |-> Some(FALSE),
     pelvic_floor_safe |-> Some(TRUE)]

ExPress ==
    [id |-> 3, slug |-> "bench-press", pattern |-> Some("push"),
     goal |-> Some("strength"), binder_aware |-> Some(FALSE),
     pelvic_floor_safe |-> Some(TRUE)]

ExercisePool == {ExSquat, ExStretch, ExPress}

\* two rows for the squat (the later one is the one joined), one row without
\* a slug, none for the stretch and the press
StagingRows ==
    <<[slug |-> Some("barbell-squat"), body_parts |-> Some("Chest"),
       exercise_type |-> Some("CARDIO")],
      [slug |-> Some("barbell-squat"), body_parts |-> Some("legs"),
       exercise_type |-> Some("STRENGTH")],
      [slug |-> None, body_parts |-> Some("chest"), exercise_type |-> None]>>

ArtHrt ==
    [id |-> 1,
     title |-> Some("Effects of testosterone on muscle strength in trans men"),
     takeaways |-> Some("increased lean mass"), summary |-> None,
     year |-> Some(2019), journal |-> Some("J Clin Endocrinol Metab"),
     doi |-> Some("10.1210/jc.2019-0001"), relevant |-> TRUE,
     topics |-> None, processed |-> FALSE]

ArtSurgery ==
    [id |-> 2,
     title |-> Some("Outcomes after Chest Surgery"),
     takeaways |-> None, summary |-> Some("low complication rates"),
     year |-> None, journal |-> None, doi |-> None, relevant |-> TRUE,
     topics |-> Some(<<"top_surgery">>), processed |-> TRUE]

ArtBone ==
    [id |-> 3,
     title |-> Some("Bone mineral density in adolescents"),
     takeaways |-> Some("BMD z-scores fall"), summary |-> None,
     year |-> Some(2020), journal |-> Some("Bone"),
     doi |-> Some("10.1016/j.bone.2020.1"), relevant |-> FALSE,
     topics |-> Some(<<"bone_health">>), processed |-> TRUE]

ResearchTables == {<<>>, <<ArtHrt>>, <<ArtBone, ArtSurgery, ArtHrt>>}

\* no keyword in title or takeaways, topics stored by an earlier tagging
ArtStale ==
    [id |-> 4,
     title |-> Some("Sleep quality in shift workers"),
     takeaways |-> Some("no association found"), summary |-> None,
     year |-> Some(2021), journal |-> Some("Sleep"), doi |-> None,
     relevant |-> TRUE,
     topics |-> Some(<<"cardio_risk">>), processed |-> TRUE]

\* two topics, stored in the other order
ArtSwapped ==
    [id |-> 5,
     title |-> Some("Testosterone therapy and fracture risk"),
     takeaways |-> None, summary |-> None,
     year |-> Some(2018), journal |-> None, doi |-> Some("10.1000/x.5"),
     relevant |-> TRUE,
     topics |-> Some(<<"bone_health", "hrt_strength">>), processed |-> TRUE]

\* the only keyword is in the summary
ArtSummary ==
    [id |-> 6,
     title |-> Some("Twelve-week cohort follow-up"),
     takeaways |-> None, summary |-> Some("Aerobic capacity improved"),
     year |-> None, journal |-> None, doi |-> None,
     relevant |-> TRUE,
     topics |-> None, processed |-> FALSE]

\* no title, empty takeaways, an empty topic list stored
ArtBlank ==
    [id |-> 7,
     title |-> None, takeaways |-> Some(""), summary |-> None,
     year |-> None, journal |-> None, doi |-> None,
     relevant |-> TRUE,
     topics |-> Some(<<>>), processed |-> FALSE]

\* a second record of the testosterone study, under the same DOI
ArtReprint ==
    [id |-> 8,
     title |-> Some("Androgen treatment and grip force: a reprint"),
     takeaways |-> Some("increased lean mass"), summary |-> None,
     year |-> Some(2020), journal |-> Some("J Clin Endocrinol Metab"),
     doi |-> Some("10.1210/jc.2019-0001"), relevant |-> TRUE,
     topics |-> None, processed |-> FALSE]

\* the DOI column holds the empty string
ArtEmptyDoi ==
    [id |-> 9,
     title |-> Some("Hypertension in adults"),
     takeaways |-> None, summary |-> Some("screening is advised"),
     year |-> Some(2017), journal |-> Some(""), doi |-> Some(""),
     relevant |-> TRUE,
     topics |-> None, processed |-> FALSE]

ArticlePool == {ArtHrt, ArtSurgery, ArtBone, ArtStale, ArtSwapped, ArtSummary, ArtBlank}

\* the lists over S of length at most n in which no element is repeated
ListsUpTo(S, n) ==
    {l \in UNION {[1..k -> S] : k \in 0..n} :
        \A i, j \in DOMAIN l : i # j => l[i] # l[j]}

\* the tips table before the first run: empty, or holding a record written
\* earlier for the bench press
TipsTables ==
    {<<>>, <<TipRecord(3, "general", "general", REQUIRED_KEYS, <<>>)>>}

\* the lists over S of length at most n
SeqsUpTo(S, n) == UNION {[1..k -> S] : k \in 0..n}

\* the values of the MAX_EXERCISES setting: None (no limit) or a number
LimitValues == {None} \cup {Some(n) : n \in 0..MaxLimit}

Procs == {"p1", "p2"}

\* the exercises of the pool as load_exercises() returns them
JoinedPool == {JoinExercise(e, st) : e \in ExercisePool, st \in {<<>>, StagingRows}}

\* infer_topics_for_exercise, tabulated once over the exercises that are drawn
InferTable == [ex \in JoinedPool |-> infer_topics_for_exercise(ex)]

\* ex_topics = infer_topics_for_exercise(ex): looked up when tabulated,
\* computed otherwise
ExTopics(ex) ==
    IF ex \in JoinedPool THEN InferTable[ex] ELSE infer_topics_for_exercise(ex)

\* the arguments main() calls the context builder with, for the tables drawn
BuildArgs ==
    {<<RelevantRows(TaggedTable(t)), InferTable[ex]>> :
        t \in ResearchTables \cup {<<ArtHrt, ArtSurgery>>}, ex \in JoinedPool}

\* build_research_context_for_topics with the default max_articles, tabulated
\* once over those arguments
BuildTable ==
    [a \in BuildArgs |->
        build_research_context_for_topics(a[1], a[2], DEFAULT_MAX_ARTICLES)]

\* research_context, dois = build_research_context_for_topics(research_rows,
\* ex_topics): looked up when tabulated, computed otherwise
Built(research_rows, ex_topics) ==
    IF <<research_rows, ex_topics>> \in BuildArgs
    THEN BuildTable[<<research_rows, ex_topics>>]
    ELSE build_research_context_for_topics(research_rows, ex_topics,
                                           DEFAULT_MAX_ARTICLES)

----------------------------------------------------------------------------
(* State. *)

VARIABLES
    research,         \* table transfit_research
    exercises_table,  \* table exercises
    staging_table,    \* table staging_exercisedb
    tips,             \* table exercise_trans_tips, in insertion order
    MAX_EXERCISES,    \* the module's setting
    runs,             \* number of runs started so far
    run,              \* per process: the locals of main() and its history
    call              \* the last direct call of a helper: arguments and result

vars == <<research, exercises_table, staging_table, tips, MAX_EXERCISES, runs, run, call>>

population == "general"

context == "general"

\* the names read from the environment when the module is loaded
REQUIRED_ENV == {"SUPABASE_URL", "SUPABASE_SERVICE_ROLE_KEY", "OPENAI_API_KEY"}

\* os.getenv for the three names: None when unset, else the string
FullEnv == [n \in REQUIRED_ENV |-> Some("set")]

NoEnv == [n \in REQUIRED_ENV |-> None]

\* the environments a process is started in: complete, or with one name unset
\* or set to the empty string
EnvValues ==
    {FullEnv,
     [FullEnv EXCEPT !["SUPABASE_URL"] = None],
     [FullEnv EXCEPT !["SUPABASE_SERVICE_ROLE_KEY"] = Some("")],
     [FullEnv EXCEPT !["OPENAI_API_KEY"] = None]}

\* variant: only the two store settings are asserted
EnvOk_store_only(env) ==
    TruthyStr(env["SUPABASE_URL"]) /\ TruthyStr(env["SUPABASE_SERVICE_ROLE_KEY"])

\* the three assert statements of the module setup all pass
EnvOk(env) ==
    /\ TruthyStr(env["SUPABASE_URL"])
    /\ TruthyStr(env["SUPABASE_SERVICE_ROLE_KEY"])
    /\ TruthyStr(env["OPENAI_API_KEY"])

\* no helper has been called directly
NoCall == [n |-> 0, fn |-> "none"]

\* history only: the previous run of the process was not killed
NoCrash == [pc |-> "none", id |-> 0, had |-> FALSE, inserted |-> {}]

\* the locals of a process that is not running main()
IdleRun ==
    [pc              |-> "idle",
     research_rows   |-> <<>>,
     exercises       |-> <<>>,
     idx             |-> 0,       \* position of `ex` in `exercises`, from 1
     processed_count |-> 0,
     research_context |-> "",
     dois            |-> <<>>,
     tips_json       |-> {},
     trace           |-> <<>>,    \* history: store calls, generator calls, outcomes
     tips0           |-> <<>>,    \* history: the tips table when the run started
     reported        |-> None,    \* the count printed by the final "Done." line
     env             |-> NoEnv,   \* history: the environment the process started in
     research0       |-> <<>>,    \* history: the research table when the run started
     tagged          |-> <<>>,    \* history: the iterations of the tagger's loop
     tagged_ok       |-> FALSE,   \* history: update_research_topics() returned
     stopped_at      |-> "none",  \* history: where main() was when the process was killed
     prev            |-> [tagged_ok |-> FALSE, writes |-> 0, crash |-> NoCrash]]
                                  \* history: the same process's previous run

Init ==
    /\ research \in ResearchTables
    /\ exercises_table \in SeqsUpTo(ExercisePool, MaxExercises)
    /\ staging_table = StagingRows
    /\ tips \in TipsTables
    /\ MAX_EXERCISES \in LimitValues
    /\ runs = 0
    /\ run = [p \in Procs |-> IdleRun]
    /\ call = NoCall

----------------------------------------------------------------------------
(* The pipeline: main(), one action per blocking call. *)

Running(p) == run[p].pc \notin {"idle", "done", "aborted", "crashed"}

\* a history entry: what happened at position pos of the exercise list
Ev(pos, op, val) == [pos |-> pos, op |-> op, val |-> val]

\* variant: the list is gone through from its end
CurrentEx_from_end(p) ==
    run[p].exercises[Len(run[p].exercises) - run[p].idx + 1]

\* the exercise the loop is at
CurrentEx(p) == run[p].exercises[run[p].idx]

\* variant: the counter is advanced for every exercise the loop is done with
Continue_counting(p, events, outcome) ==
    [run EXCEPT ![p] =
        [@ EXCEPT !.pc = "loop",
                  !.idx = @ + 1,
                  !.processed_count = @ + 1,
                  !.trace = @ \o events \o <<Ev(run[p].idx, "outcome", outcome)>>]]

\* `continue`: the outcome is printed and the loop goes to the next exercise
Continue(p, events, outcome) ==
    [run EXCEPT ![p] =
        [@ EXCEPT !.pc = "loop",
                  !.idx = @ + 1,
                  !.trace = @ \o events \o <<Ev(run[p].idx, "outcome", outcome)>>]]

\* an exception leaves main(): the process ends without the final report
Abort(p, events) ==
    [run EXCEPT ![p] = [@ EXCEPT !.pc = "aborted", !.trace = @ \o events]]

\* history only: the number of update calls of p's run that returned
Writes(p) == Cardinality({k \in DOMAIN run[p].tagged : run[p].tagged[k].wrote})

\* history only: where p's run was killed, the id of the exercise it was at,
\* whether the tips table holds a record for that exercise, and the ids the
\* run inserted records for
CrashOf(p) ==
    IF run[p].pc # "crashed" THEN NoCrash
    ELSE LET at == run[p].stopped_at
             id == IF at \in {"check", "generate", "insert"} THEN CurrentEx(p).id ELSE 0
         IN  [pc       |-> at,
              id       |-> id,
              had      |-> exercise_already_has_tips(tips, id, population, context),
              inserted |-> {run[p].exercises[run[p].trace[k].pos].id :
                              k \in {k \in DOMAIN run[p].trace :
                                        /\ run[p].trace[k].op = "insert"
                                        /\ run[p].trace[k].val = "ok"}}]

\* the script is started in one of the environments envs: the module setup
\* asserts the three settings, then main() is called; `alone` is whether the
\* operator waits for the other runs to end
StartRun(p, alone, envs) ==
    /\ ~Running(p)
    /\ alone => \A q \in Procs : ~Running(q)
    /\ runs < MaxRuns
    /\ runs' = runs + 1
    /\ \E env \in envs :
          run' = [run EXCEPT ![p] =
                    [IdleRun EXCEPT !.pc = IF EnvOk(env) THEN "tag" ELSE "aborted",
                                    !.env = env,
                                    !.tips0 = tips,
                                    !.research0 = research,
                                    !.prev = [tagged_ok |-> run[p].tagged_ok,
                                              writes    |-> Writes(p),
                                              crash     |-> CrashOf(p)]]]
    /\ UNCHANGED <<research, exercises_table, staging_table, tips, MAX_EXERCISES, call>>

\* variant: a failed read is taken for an empty result
AfterReadFailure_empty_result(p, op) ==
    [run EXCEPT ![p] =
        [@ EXCEPT !.pc = IF op = "research_read" THEN "load" ELSE "loop",
                  !.idx = 1,
                  !.trace = Append(@, Ev(0, op, "raise"))]]

\* a read of the research or exercise store raises: nothing in main() catches it
AfterReadFailure(p, op) == Abort(p, <<Ev(0, op, "raise")>>)

\* research_rows = update_research_topics(): the select raises; or the update
\* call for row k raises after the rows before it were handled; or the loop
\* completes
UpdateResearchTopics(p) ==
    /\ run[p].pc = "tag"
    /\ \/ /\ research' = research
          /\ run' = AfterReadFailure(p, "research_read")
       \/ \E k \in WritePoints(research) :
             /\ research' = TaggedUpTo(research, k - 1)
             /\ run' = [run EXCEPT ![p] =
                          [@ EXCEPT !.pc = "aborted",
                                    !.tagged = TagEntries(research, k - 1),
                                    !.trace = Append(@, Ev(0, "research_write", "raise"))]]
       \/ LET tagged == TaggedTable(research)
          IN  /\ research' = tagged
              /\ run' = [run EXCEPT ![p] =
                           [@ EXCEPT !.pc = "load",
                                     !.research_rows = RelevantRows(tagged),
                                     !.tagged = TagEntries(research, Len(research)),
                                     !.tagged_ok = TRUE]]
    /\ UNCHANGED <<exercises_table, staging_table, tips, MAX_EXERCISES, runs, call>>

\* exercises = load_exercises(), or one of its reads raises
LoadExercises(p) ==
    /\ run[p].pc = "load"
    /\ \E ok \in BOOLEAN :
          IF ok
          THEN run' = [run EXCEPT ![p] =
                         [@ EXCEPT !.pc = "loop",
                                   !.exercises = load_exercises(exercises_table, staging_table),
                                   !.idx = 1,
                                   !.processed_count = 0]]
          ELSE run' = AfterReadFailure(p, "exercise_read")
    /\ UNCHANGED <<research, exercises_table, staging_table, tips, MAX_EXERCISES, runs, call>>

\* variant: the limit is not tested
LimitReached_never(limit, processed_count) == FALSE

\* variant: the limit is tested against the counter plus one
LimitReached_early(limit, processed_count) ==
    limit # None /\ processed_count + 1 >= limit[1]

\* variant: the limit is tested with `>`
LimitReached_strict(limit, processed_count) ==
    limit # None /\ processed_count > limit[1]

\* the test of the limit at the head of the loop body
LimitReached(limit, processed_count) ==
    limit # None /\ processed_count >= limit[1]

\* the head of the for loop: the list is exhausted, the limit is reached (break),
\* or the next exercise is taken
LoopHead(p) ==
    /\ run[p].pc = "loop"
    /\ IF \/ run[p].idx > Len(run[p].exercises)
          \/ LimitReached(MAX_EXERCISES, run[p].processed_count)
       THEN run' = [run EXCEPT ![p] =
                      [@ EXCEPT !.pc = "done",
                                !.reported = Some(run[p].processed_count)]]
       ELSE run' = [run EXCEPT ![p] = [@ EXCEPT !.pc = "check"]]
    /\ UNCHANGED <<research, exercises_table, staging_table, tips, MAX_EXERCISES, runs, call>>

\* variant: the topics are tested before the existence read is looked at
Precheck_topics_first(exists, ex_topics, research_context) ==
    IF ex_topics = {} THEN "NO_TOPIC"
    ELSE IF exists THEN "DUPLICATE"
    ELSE IF research_context = "" THEN "NO_EVIDENCE"
    ELSE "GENERATE"

\* the three tests before the generator call, in the order main() makes them:
\* the skip that is taken, or "GENERATE" when none is
Precheck(exists, ex_topics, research_context) ==
    IF exists THEN "DUPLICATE"
    ELSE IF ex_topics = {} THEN "NO_TOPIC"
    ELSE IF research_context = "" THEN "NO_EVIDENCE"
    ELSE "GENERATE"

\* the existence read (which may raise), then the local steps up to the
\* generator call: topic inference and context building
ExistsCheck(p) ==
    /\ run[p].pc = "check"
    /\ \E ok \in BOOLEAN :
        LET ex        == CurrentEx(p)
            i         == run[p].idx
            exists    == exercise_already_has_tips(tips, ex.id, population, context)
            ex_topics == ExTopics(ex)
            built     == Built(run[p].research_rows, ex_topics)
            read      == Ev(i, "exists", IF exists THEN "true" ELSE "false")
            verdict   == Precheck(exists, ex_topics, built[1])
        IN  IF ~ok
            THEN run' = Abort(p, <<Ev(i, "exists", "raise")>>)
            ELSE IF verdict # "GENERATE"
            THEN run' = Continue(p, <<read>>, verdict)
            ELSE run' = [run EXCEPT ![p] =
                           [@ EXCEPT !.pc = "generate",
                                     !.research_context = built[1],
                                     !.dois = built[2],
                                     !.trace = Append(@, read)]]
    /\ UNCHANGED <<research, exercises_table, staging_table, tips, MAX_EXERCISES, runs, call>>

\* history only: how a response compares with the object asked for
Shape(resp) ==
    IF resp.raises THEN "raise"
    ELSE IF resp.keys = {} THEN "empty"
    ELSE IF resp.keys = REQUIRED_KEYS THEN "valid"
    ELSE "malformed"

\* variant: a generator call that raised is made again
AfterGenerate_retry(p, resp) ==
    LET called == <<Ev(run[p].idx, "generate", Shape(resp))>>
    IN  IF resp.raises
        THEN [run EXCEPT ![p] = [@ EXCEPT !.trace = @ \o called]]
        ELSE IF resp.keys = {}
        THEN Continue(p, called, "GEN_ERROR")
        ELSE [run EXCEPT ![p] =
                [@ EXCEPT !.pc = "insert",
                          !.tips_json = resp.keys,
                          !.trace = @ \o called]]

\* variant: no except clause around the generator call
AfterGenerate_uncaught(p, resp) ==
    LET called == <<Ev(run[p].idx, "generate", Shape(resp))>>
    IN  IF resp.raises
        THEN Abort(p, called)
        ELSE IF resp.keys = {}
        THEN Continue(p, called, "GEN_ERROR")
        ELSE [run EXCEPT ![p] =
                [@ EXCEPT !.pc = "insert",
                          !.tips_json = resp.keys,
                          !.trace = @ \o called]]

\* what main() does with the result of generate_tips_json_for_exercise:
\* the except clause, the test `if not tips_json`, or on to the insert
AfterGenerate(p, resp) ==
    LET called == <<Ev(run[p].idx, "generate", Shape(resp))>>
    IN  IF resp.raises
        THEN Continue(p, called, "GEN_ERROR")
        ELSE IF resp.keys = {}
        THEN Continue(p, called, "GEN_ERROR")
        ELSE [run EXCEPT ![p] =
                [@ EXCEPT !.pc = "insert",
                          !.tips_json = resp.keys,
                          !.trace = @ \o called]]

\* tips_json = generate_tips_json_for_exercise(ex, research_context, dois)
Generate(p) ==
    /\ run[p].pc = "generate"
    /\ IF Strip(run[p].research_context) = ""
       THEN run' = AfterGenerate(p, [raises |-> FALSE, keys |-> {}])
       ELSE \E resp \in GeneratorResponses : run' = AfterGenerate(p, resp)
    /\ UNCHANGED <<research, exercises_table, staging_table, tips, MAX_EXERCISES, runs, call>>

\* variant: an insert that leaves the table alone when the tuple is present
InsertedTable_if_absent(table, rec) ==
    IF \E k \in DOMAIN table :
          /\ table[k].exercise_id = rec.exercise_id
          /\ table[k].population = rec.population
          /\ table[k].context = rec.context
    THEN table
    ELSE Append(table, rec)

\* variant: an insert that overwrites the record of the tuple when there is one
InsertedTable_upsert(table, rec) ==
    LET same == {k \in DOMAIN table :
                    /\ table[k].exercise_id = rec.exercise_id
                    /\ table[k].population = rec.population
                    /\ table[k].context = rec.context}
    IN  IF same = {} THEN Append(table, rec)
        ELSE [k \in DOMAIN table |-> IF k \in same THEN rec ELSE table[k]]

\* the tips table after a successful insert
InsertedTable(table, rec) == Append(table, rec)

\* variant: the failed insert is caught and the loop goes on
AfterInsertFailure_swallowed(p) ==
    Continue(p, <<Ev(run[p].idx, "insert", "raise")>>, "GEN_ERROR")

\* the insert raises: nothing in main() catches it
AfterInsertFailure(p) == Abort(p, <<Ev(run[p].idx, "insert", "raise")>>)

\* the insert into exercise_trans_tips, then processed_count += 1; or it raises
InsertTips(p) ==
    /\ run[p].pc = "insert"
    /\ \E ok \in BOOLEAN :
        LET i   == run[p].idx
            rec == TipRecord(CurrentEx(p).id, population, context,
                             run[p].tips_json, run[p].dois)
        IN  IF ok
            THEN /\ tips' = InsertedTable(tips, rec)
                 /\ run' = [Continue(p, <<Ev(i, "insert", "ok")>>, "PERSISTED")
                              EXCEPT ![p].processed_count = @ + 1]
            ELSE /\ tips' = tips
                 /\ run' = AfterInsertFailure(p)
    /\ UNCHANGED <<research, exercises_table, staging_table, MAX_EXERCISES, runs, call>>

\* the process is killed (operator interrupt, host shutdown) while main() is at
\* one of its blocking calls: nothing of the call in progress has taken effect,
\* except in the tagger, whose loop has handled the rows before the one it is at
Crash(p) ==
    /\ Running(p)
    /\ \E k \in (IF run[p].pc = "tag" THEN 0..Len(research) ELSE {0}) :
          research' = TaggedUpTo(research, k)
    /\ run' = [run EXCEPT ![p] =
                 [@ EXCEPT !.pc = "crashed", !.stopped_at = run[p].pc]]
    /\ UNCHANGED <<exercises_table, staging_table, tips, MAX_EXERCISES, runs, call>>

\* a step of process p's run
Step(p) ==
    \/ UpdateResearchTopics(p)
    \/ LoadExercises(p)
    \/ LoopHead(p)
    \/ ExistsCheck(p)
    \/ Generate(p)
    \/ InsertTips(p)

\* the script run again and again by one operator, each run after the last ended
Next ==
    \/ StartRun("p1", TRUE, EnvValues)
    \/ Step("p1")

Spec == Init /\ [][Next]_vars

\* two operators, both with a complete environment, run the script with no
\* coordination
NextConc ==
    \E p \in Procs :
        \/ StartRun(p, FALSE, {FullEnv})
        \/ Step(p)

\* the concurrent runs start from a catalog of exercises with and without
\* topics, one tagged article and an empty tips table
InitConc ==
    /\ research = <<TaggedRow(ArtHrt)>>
    /\ exercises_table \in SeqsUpTo({ExSquat, ExPress}, MaxExercises)
    /\ staging_table = <<>>
    /\ tips = <<>>
    /\ MAX_EXERCISES \in {None, Some(MaxLimit)}
    /\ runs = 0
    /\ run = [p \in Procs |-> IdleRun]
    /\ call = NoCall

SpecConc == InitConc /\ [][NextConc]_vars

\* one operator runs the script again and again, each run after the last
\* ended or was killed
NextCrash ==
    \/ StartRun("p1", TRUE, {FullEnv})
    \/ Step("p1")
    \/ Crash("p1")

\* the runs start from two articles, a catalog of exercises with and without
\* topics, and an empty tips table
InitCrash ==
    /\ research = <<ArtHrt, ArtSurgery>>
    /\ exercises_table \in SeqsUpTo(ExercisePool, MaxExercises)
    /\ staging_table = StagingRows
    /\ tips = <<>>
    /\ MAX_EXERCISES \in {None, Some(MaxLimit)}
    /\ runs = 0
    /\ run = [p \in Procs |-> IdleRun]
    /\ call = NoCall

SpecCrash == InitCrash /\ [][NextCrash]_vars

\* no store call of p1's run has raised, and every generator call has returned
\* a non-empty object
Healthy ==
    /\ run["p1"].pc # "aborted"
    /\ \A k \in DOMAIN run["p1"].trace :
          ~(run["p1"].trace[k].op = "generate"
            /\ run["p1"].trace[k].val \in {"raise", "empty"})

\* a step of the script run again and again by one operator, with stores that
\* answer and a generator that returns a non-empty object
NextConv ==
    \/ StartRun("p1", TRUE, {FullEnv}) /\ Healthy'
    \/ UpdateResearchTopics("p1") /\ Healthy'
    \/ LoadExercises("p1") /\ Healthy'
    \/ LoopHead("p1") /\ Healthy'
    \/ ExistsCheck("p1") /\ Healthy'
    \/ Generate("p1") /\ Healthy'
    \/ InsertTips("p1") /\ Healthy'

\* the runs start with a limit of 1 or more
InitConv ==
    /\ research \in ResearchTables
    /\ exercises_table \in SeqsUpTo(ExercisePool, MaxExercises)
    /\ staging_table = StagingRows
    /\ tips \in TipsTables
    /\ MAX_EXERCISES \in {Some(n) : n \in 1..MaxLimit}
    /\ runs = 0
    /\ run = [p \in Procs |-> IdleRun]
    /\ call = NoCall

\* every blocking call returns and the operator starts the script again: a
\* step that can be taken is taken
SpecConv == InitConv /\ [][NextConv]_vars /\ WF_vars(NextConv)

\* the runs start from a research table of up to MaxRows articles, a catalog
\* of one exercise and an empty tips table
InitTag ==
    /\ research \in ListsUpTo(ArticlePool, MaxRows)
    /\ exercises_table = <<ExSquat>>
    /\ staging_table = StagingRows
    /\ tips = <<>>
    /\ MAX_EXERCISES = None
    /\ runs = 0
    /\ run = [p \in Procs |-> IdleRun]
    /\ call = NoCall

SpecTag == InitTag /\ [][Next]_vars

----------------------------------------------------------------------------
(* The helpers called directly: infer_topics_for_exercise and
   build_research_context_for_topics on drawn arguments. *)

\* the value of the setting in the source
SOURCE_MAX_EXERCISES == 25

FlagValues == {None, Some(FALSE), Some(TRUE)}

PatternValues == {None, Some("squat"), Some("Hinge"), Some("core"), Some("push")}

GoalValues ==
    {None, Some("strength"), Some("mobility"), Some("Conditioning"), Some("recovery")}

TypeValues == {None, Some("CARDIO"), Some("plyometrics"), Some("strength")}

BodyValues ==
    {None, Some(""), Some("legs"), Some("Chest, Shoulders"), Some("upper arms")}

\* the exercises infer_topics_for_exercise is called on: every attribute it
\* reads present with a value, or null/absent
ExerciseInputs ==
    [pattern : PatternValues, goal : GoalValues, exercise_type : TypeValues,
     body_parts : BodyValues, binder_aware : FlagValues,
     pelvic_floor_safe : FlagValues]

\* the research rows the builder is called on: rows as the tagger returns them
BuildRows ==
    {TaggedRow(a) : a \in {a \in ArticlePool : a.relevant} \cup {ArtReprint, ArtEmptyDoi}}

\* the exercise topics the builder is called on
TopicArgs == SUBSET {"hrt_strength", "top_surgery", "cardio_risk"}

\* the values of max_articles the builder is called with
MaxArticlesValues == (0 - 1)..(MaxRows + 1)

\* infer_topics_for_exercise(ex) is called: on a drawn exercise, or again on
\* the exercise of the call before
CallInfer ==
    /\ call.n < MaxCalls
    /\ call.fn \in {"none", "infer"}
    /\ \E ex \in (IF call.fn = "none" THEN ExerciseInputs ELSE {call.ex}) :
          call' = [n |-> call.n + 1, fn |-> "infer", ex |-> ex,
                   result |-> infer_topics_for_exercise(ex)]
    /\ UNCHANGED <<research, exercises_table, staging_table, tips, MAX_EXERCISES, runs, run>>

\* build_research_context_for_topics(research_rows, exercise_topics,
\* max_articles) is called: on drawn arguments, or again on the arguments of
\* the call before; `matched` is history, the local list of selected rows
CallBuild ==
    /\ call.n < MaxCalls
    /\ call.fn \in {"none", "build"}
    /\ \E args \in (IF call.fn = "none"
                    THEN [research_rows : ListsUpTo(BuildRows, MaxRows),
                          exercise_topics : TopicArgs,
                          max_articles : MaxArticlesValues]
                    ELSE {[research_rows |-> call.research_rows,
                           exercise_topics |-> call.exercise_topics,
                           max_articles |-> call.max_articles]}) :
          call' = [n |-> call.n + 1, fn |-> "build",
                   research_rows |-> args.research_rows,
                   exercise_topics |-> args.exercise_topics,
                   max_articles |-> args.max_articles,
                   matched |-> IF args.exercise_topics = {} THEN <<>>
                               ELSE MatchedRows(args.research_rows,
                                                args.exercise_topics,
                                                args.max_articles),
                   result |-> build_research_context_for_topics(
                                  args.research_rows, args.exercise_topics,
                                  args.max_articles)]
    /\ UNCHANGED <<research, exercises_table, staging_table, tips, MAX_EXERCISES, runs, run>>

NextPure == CallInfer \/ CallBuild

\* the module is loaded and no run is started
InitPure ==
    /\ research = <<>>
    /\ exercises_table = <<>>
    /\ staging_table = <<>>
    /\ tips = <<>>
    /\ MAX_EXERCISES = Some(SOURCE_MAX_EXERCISES)
    /\ runs = 0
    /\ run = [p \in Procs |-> IdleRun]
    /\ call = NoCall

SpecPure == InitPure /\ [][NextPure]_vars

----------------------------------------------------------------------------
(* Vocabulary of the properties. *)

\* the positions in p's history of the entries with this op and a value in vals
Entries(p, op, vals) ==
    {k \in DOMAIN run[p].trace :
        run[p].trace[k].op = op /\ run[p].trace[k].val \in vals}

\* the same, at position pos of the exercise list
EntriesAt(p, pos, op, vals) ==
    {k \in Entries(p, op, vals) : run[p].trace[k].pos = pos}

Outcomes == {"DUPLICATE", "NO_TOPIC", "NO_EVIDENCE", "GEN_ERROR", "PERSISTED"}

Skipped == {"DUPLICATE", "NO_TOPIC", "NO_EVIDENCE", "GEN_ERROR"}

ReadResults == {"true", "false", "raise"}

Shapes == {"raise", "empty", "malformed", "valid"}

InsertResults == {"ok", "raise"}

\* the records of a tips table for one (exercise id, population, context)
RecordsFor(table, id, pop, ctx) ==
    {k \in DOMAIN table :
        /\ table[k].exercise_id = id
        /\ table[k].population = pop
        /\ table[k].context = ctx}

ExerciseIds == {e.id : e \in ExercisePool}

\* the number of exercises p's current run persisted
Persisted(p) == Cardinality(Entries(p, "outcome", {"PERSISTED"}))

----------------------------------------------------------------------------
(* Properties of the generation loop. *)

\* C1: after any number of runs that do not overlap, the tips table holds at
\* most one record for every (exercise id, population, context), also when the
\* exercise list names an id twice.
C1_AtMostOneTip ==
    \A id \in ExerciseIds :
        Cardinality(RecordsFor(tips, id, population, context)) <= 1

\* C1 witness: a second run has ended over a list that names one id twice, the
\* id has its record, and every visit of the second run was a duplicate.
C1_Witness ==
    /\ runs = 2
    /\ run["p1"].pc = "done"
    /\ Len(run["p1"].exercises) = 2
    /\ run["p1"].exercises[1].id = run["p1"].exercises[2].id
    /\ Cardinality(Entries("p1", "outcome", {"DUPLICATE"})) = 2
    /\ Cardinality(RecordsFor(tips, run["p1"].exercises[1].id, population, context)) = 1

\* C2, as claimed: for an exercise for which the generator returned a non-empty
\* object that lacks a required key, no record is inserted and the exercise
\* does not end as PERSISTED.
C2_MalformedIsGenError ==
    \A p \in Procs : \A k \in Entries(p, "generate", {"malformed"}) :
        LET pos == run[p].trace[k].pos
        IN  /\ EntriesAt(p, pos, "insert", {"ok"}) = {}
            /\ EntriesAt(p, pos, "outcome", {"PERSISTED"}) = {}

\* the generator call of process p raises in this step
GeneratorRaises(p) ==
    /\ run[p].pc = "generate"
    /\ Len(run'[p].trace) > Len(run[p].trace)
    /\ run'[p].trace[Len(run[p].trace) + 1] = Ev(run[p].idx, "generate", "raise")

\* C3: when the generator call raises, nothing is inserted, the counter and the
\* tips table stay as they are, the exercise is logged as GEN_ERROR and the run
\* goes on with the next position of the list.
C3_GeneratorRaiseSkips ==
    [][\A p \in Procs :
          GeneratorRaises(p) =>
             /\ tips' = tips
             /\ run'[p].processed_count = run[p].processed_count
             /\ run'[p].pc = "loop"
             /\ run'[p].idx = run[p].idx + 1
             /\ run'[p].trace[Len(run'[p].trace)] = Ev(run[p].idx, "outcome", "GEN_ERROR")]_vars

\* C3 witness: the generator raised at one position and the run has made the
\* existence read of the next one.
C3_Witness ==
    \E k \in Entries("p1", "generate", {"raise"}) :
        EntriesAt("p1", run["p1"].trace[k].pos + 1, "exists", ReadResults) # {}

\* C4: a failed insert is the last thing a run does: the run is over without
\* a report, the counter holds the inserts that succeeded, and no position
\* after the failed one is touched.
C4_InsertFailureAborts ==
    \A p \in Procs : \A k \in Entries(p, "insert", {"raise"}) :
        /\ k = Len(run[p].trace)
        /\ run[p].pc = "aborted"
        /\ run[p].reported = None
        /\ run[p].idx = run[p].trace[k].pos
        /\ run[p].processed_count = Cardinality(Entries(p, "insert", {"ok"}))
        /\ \A j \in DOMAIN run[p].trace : run[p].trace[j].pos <= run[p].trace[k].pos

\* C4 witness: the insert failed for the first of two exercises.
C4_Witness ==
    /\ Entries("p1", "insert", {"raise"}) # {}
    /\ run["p1"].idx < Len(run["p1"].exercises)

\* the ids for which p's current run read "no record" and then inserted
InsertedAfterMiss(p) ==
    {run[p].exercises[run[p].trace[k].pos].id : k \in
        {k \in Entries(p, "insert", {"ok"}) :
            EntriesAt(p, run[p].trace[k].pos, "exists", {"false"}) # {}}}

\* C5: when two runs in progress have both read "no record" for one exercise
\* and both inserted, the table holds two records for it: the insert is not
\* conditional on the tuple being absent.
C5_BothInsert ==
    \A p, q \in Procs :
        p # q =>
            \A id \in InsertedAfterMiss(p) \cap InsertedAfterMiss(q) :
                Cardinality(RecordsFor(tips, id, population, context)) >= 2

\* C5 witness: both runs read "no record" for the same exercise before either
\* inserted, both inserted, and the table holds two records for the tuple.
C5_Witness ==
    \E id \in InsertedAfterMiss("p1") \cap InsertedAfterMiss("p2") :
        /\ Cardinality(RecordsFor(tips, id, population, context)) = 2
        /\ Len(run["p1"].tips0) = 0
        /\ Len(run["p2"].tips0) = 0

\* position pos of p's list has been taken by the loop
Visited(p, pos) == EntriesAt(p, pos, "exists", ReadResults) # {}

\* the loop is done with position pos: it moved on, or the run is over
Ended(p, pos) ==
    Visited(p, pos) /\ (pos < run[p].idx \/ run[p].pc \in {"done", "aborted"})

\* a store call made for position pos raised
StoreRaised(p, pos) ==
    \/ EntriesAt(p, pos, "exists", {"raise"}) # {}
    \/ EntriesAt(p, pos, "insert", {"raise"}) # {}

\* the outcome the precedence gives position pos, from what was read and returned
Expected(p, pos) ==
    LET ex     == run[p].exercises[pos]
        topics == ExTopics(ex)
    IN  IF EntriesAt(p, pos, "exists", {"true"}) # {} THEN "DUPLICATE"
        ELSE IF topics = {} THEN "NO_TOPIC"
        ELSE IF Built(run[p].research_rows, topics)[1] = "" THEN "NO_EVIDENCE"
        ELSE IF EntriesAt(p, pos, "generate", {"raise", "empty"}) # {} THEN "GEN_ERROR"
        ELSE "PERSISTED"

\* position pos has exactly one outcome, the one the precedence gives
OneOutcome(p, pos) ==
    /\ Cardinality(EntriesAt(p, pos, "outcome", Outcomes)) = 1
    /\ EntriesAt(p, pos, "outcome", {Expected(p, pos)}) # {}

\* C6, as claimed: every exercise the loop is done with has exactly one of the
\* five outcomes, the one the precedence DUPLICATE, NO_TOPIC, NO_EVIDENCE,
\* GEN_ERROR, PERSISTED gives. (Stated for the exercises whose existence read
\* returned and whose generator call, if any, returned the object asked for.)
C6_EveryVisitHasOutcome ==
    \A p \in Procs : \A pos \in DOMAIN run[p].exercises :
        /\ Ended(p, pos)
        /\ EntriesAt(p, pos, "exists", {"true", "false"}) # {}
        /\ EntriesAt(p, pos, "generate", {"malformed"}) = {}
        => OneOutcome(p, pos)

\* C6, amended: the same, except for an exercise for which a store call (the
\* existence read or the insert) raised: it has no outcome and is the one the
\* run aborted at. An exercise still in progress has no outcome yet.
C6_OutcomeUnlessStoreRaises ==
    \A p \in Procs : \A pos \in DOMAIN run[p].exercises :
        /\ Ended(p, pos) /\ ~StoreRaised(p, pos) => OneOutcome(p, pos)
        /\ StoreRaised(p, pos) =>
              /\ EntriesAt(p, pos, "outcome", Outcomes) = {}
              /\ run[p].pc = "aborted"
              /\ run[p].idx = pos
        /\ ~Ended(p, pos) => EntriesAt(p, pos, "outcome", Outcomes) = {}

\* C6 witness: an exercise with no inferred topics that already had a record
\* ended as DUPLICATE.
C6_Witness ==
    \E k \in Entries("p1", "outcome", {"DUPLICATE"}) :
        ExTopics(run["p1"].exercises[run["p1"].trace[k].pos]) = {}

\* every exercise of p's list had a record when p's run started
FullyPersistedAtStart(p) ==
    /\ run[p].exercises # <<>>
    /\ \A j \in DOMAIN run[p].exercises :
          RecordsFor(run[p].tips0, run[p].exercises[j].id, population, context) # {}

\* C7: an exercise that has a record when the run reaches it is read as
\* existing, and the run makes no generator call and no insert for it; a run
\* over a list whose exercises all had records reports 0 and leaves the tips
\* table as it found it.
C7_DuplicateIsSkipped ==
    \A p \in Procs :
        /\ \A pos \in DOMAIN run[p].exercises :
              /\ RecordsFor(run[p].tips0, run[p].exercises[pos].id, population, context) # {}
                    => EntriesAt(p, pos, "exists", {"false"}) = {}
              /\ EntriesAt(p, pos, "exists", {"true"}) # {}
                    => /\ EntriesAt(p, pos, "generate", Shapes) = {}
                       /\ EntriesAt(p, pos, "insert", InsertResults) = {}
                       /\ EntriesAt(p, pos, "outcome", {"PERSISTED"}) = {}
        /\ run[p].pc = "done" /\ FullyPersistedAtStart(p)
              => run[p].reported = Some(0) /\ tips = run[p].tips0

\* C7 witness: a second run over two exercises that both had records ended
\* with two duplicates and a report of 0.
C7_Witness ==
    /\ runs = 2
    /\ run["p1"].pc = "done"
    /\ FullyPersistedAtStart("p1")
    /\ Len(run["p1"].exercises) = 2
    /\ Cardinality(Entries("p1", "outcome", {"DUPLICATE"})) = 2
    /\ run["p1"].reported = Some(0)
    /\ Len(tips) = 2

\* C8: in one run the positions of the list are taken in order, each at most
\* once, with one existence read, at most one generator call and at most one
\* insert; a generator call follows a read of "no record" for an exercise with
\* topics and a non-empty context, and an insert follows a generator call that
\* returned a non-empty object for the same position.
C8_OncePerExercise ==
    \A p \in Procs :
        /\ \A a, b \in DOMAIN run[p].trace :
              a < b => run[p].trace[a].pos <= run[p].trace[b].pos
        /\ \A pos \in DOMAIN run[p].exercises :
              /\ Cardinality(EntriesAt(p, pos, "exists", ReadResults)) <= 1
              /\ pos < run[p].idx =>
                    Cardinality(EntriesAt(p, pos, "exists", ReadResults)) = 1
              /\ Cardinality(EntriesAt(p, pos, "generate", Shapes)) <= 1
              /\ Cardinality(EntriesAt(p, pos, "insert", InsertResults)) <= 1
              /\ \A k \in EntriesAt(p, pos, "generate", Shapes) :
                    LET topics == ExTopics(run[p].exercises[pos])
                    IN  /\ \E r \in EntriesAt(p, pos, "exists", {"false"}) : r < k
                        /\ topics # {}
                        /\ Built(run[p].research_rows, topics)[1] # ""
              /\ \A k \in EntriesAt(p, pos, "insert", InsertResults) :
                    \E g \in EntriesAt(p, pos, "generate", {"malformed", "valid"}) : g < k

\* C8 witness: a run ended in which the generator failed for one exercise and
\* the other was generated and inserted.
C8_Witness ==
    /\ run["p1"].pc = "done"
    /\ Entries("p1", "generate", {"raise"}) # {}
    /\ Entries("p1", "insert", {"ok"}) # {}
    /\ Cardinality(Entries("p1", "generate", Shapes)) = 2

\* C9: the counter is the number of exercises that reached PERSISTED, which is
\* the number of inserts that succeeded; at the end of a run that is what is
\* reported and what the tips table grew by.
C9_CounterIsPersisted ==
    \A p \in Procs :
        /\ run[p].processed_count = Persisted(p)
        /\ Persisted(p) = Cardinality(Entries(p, "insert", {"ok"}))
        /\ run[p].pc = "done" =>
              /\ run[p].reported = Some(Persisted(p))
              /\ Len(tips) = Len(run[p].tips0) + Persisted(p)

\* C9 witness: a run ended reporting 1 after one exercise was skipped and one
\* persisted.
C9_Witness ==
    /\ run["p1"].pc = "done"
    /\ run["p1"].reported = Some(1)
    /\ Entries("p1", "outcome", Skipped) # {}
    /\ Entries("p1", "outcome", {"PERSISTED"}) # {}

\* C10, as claimed: with a limit set, a run makes at most MAX_EXERCISES
\* existence reads (counting those that returned) and at most MAX_EXERCISES
\* generator calls.
C10_VisitsWithinLimit ==
    \A p \in Procs :
        MAX_EXERCISES # None =>
            /\ Cardinality(Entries(p, "exists", {"true", "false"})) <= MAX_EXERCISES[1]
            /\ Cardinality(Entries(p, "generate", Shapes)) <= MAX_EXERCISES[1]

\* C10, amended: with a limit set, a run persists at most MAX_EXERCISES
\* exercises; its existence reads are at most MAX_EXERCISES more than the
\* exercises it skipped, and its generator calls at most MAX_EXERCISES more than
\* its GEN_ERROR outcomes.
C10_PersistedWithinLimit ==
    \A p \in Procs :
        MAX_EXERCISES # None =>
            /\ Persisted(p) <= MAX_EXERCISES[1]
            /\ Cardinality(Entries(p, "exists", ReadResults))
                 <= MAX_EXERCISES[1] + Cardinality(Entries(p, "outcome", Skipped))
            /\ Cardinality(Entries(p, "generate", Shapes))
                 <= MAX_EXERCISES[1] + Cardinality(Entries(p, "outcome", {"GEN_ERROR"}))

\* C10 witness: with a limit of 1 a run made two existence reads, skipped one
\* exercise, persisted the other and ended.
C10_Witness ==
    /\ MAX_EXERCISES = Some(1)
    /\ run["p1"].pc = "done"
    /\ Cardinality(Entries("p1", "exists", ReadResults)) = 2
    /\ Persisted("p1") = 1

----------------------------------------------------------------------------
(* Properties of the research topic tagger. *)

\* a stored topics value as a set: null and the empty list are both no topics
StoredSet(o) == IF o = None THEN {} ELSE Range(o[1])

\* the research row with this id
RowById(id) == CHOOSE r \in Range(research) : r.id = id

\* C11, as claimed: in every iteration of the tagger's loop in which the
\* computed topic set differs from the stored one (also when the computed set
\* is empty and the stored one is not) the update is made, and once
\* update_research_topics() has returned every relevant article's stored
\* topics are its computed topics and such an article is marked processed.
C11_WriteOnChange ==
    \A p \in Procs :
        /\ \A k \in DOMAIN run[p].tagged :
              LET e == run[p].tagged[k]
              IN  StoredSet(e.stored) # Range(e.topics) => e.wrote
        /\ run[p].tagged_ok =>
              \A k \in DOMAIN research :
                  research[k].relevant =>
                      StoredSet(research[k].topics) = Range(RowTopics(research[k]))

\* C12, as claimed: in no iteration of the tagger's loop is the update made
\* for an article whose stored topics are, as a set, the computed ones,
\* whatever the order of the stored list.
C12_NoWriteWhenSameSet ==
    \A p \in Procs : \A k \in DOMAIN run[p].tagged :
        LET e == run[p].tagged[k]
        IN  StoredSet(e.stored) = Range(e.topics) => ~e.wrote

\* C13: when a run's update_research_topics() returns and so did the one of
\* the run before it, with nothing else writing the research table, the second
\* makes no update call and the table (topics and processed of every article)
\* is as the first left it.
C13_TaggingIdempotent ==
    \A p \in Procs :
        run[p].prev.tagged_ok /\ run[p].tagged_ok =>
            /\ Writes(p) = 0
            /\ research = run[p].research0

\* C13 witness: the tagger of the first run wrote to the table, and the tagger
\* of the second run went over two or more articles and returned.
C13_Witness ==
    /\ run["p1"].prev.tagged_ok
    /\ run["p1"].prev.writes > 0
    /\ run["p1"].tagged_ok
    /\ Len(run["p1"].tagged) >= 2

\* the topics that have a trigger keyword occurring in a text
KeywordTopics(text) ==
    {t \in Range(TOPIC_ORDER) :
        \E k \in Range(TOPIC_KEYWORDS(t)) : Contains(text, k)}

\* per article id: the topics with a keyword in the lowercased title and
\* takeaways, the summary standing in for absent or empty takeaways
TopicsFromTakeawaysOrSummary ==
    [id \in {a.id : a \in ArticlePool} |->
        LET a == CHOOSE a \in ArticlePool : a.id = id
            body == IF TruthyStr(a.takeaways) THEN a.takeaways[1]
                    ELSE OrEmpty(a.summary)
        IN  KeywordTopics(Lower(OrEmpty(a.title) \o " " \o body))]

\* per article id: the topics with a keyword in the lowercased title and
\* takeaways
TopicsFromTakeaways ==
    [id \in {a.id : a \in ArticlePool} |->
        LET a == CHOOSE a \in ArticlePool : a.id = id
        IN  KeywordTopics(Lower(OrEmpty(a.title)) \o " " \o Lower(OrEmpty(a.takeaways)))]

\* C14, as claimed: the topic set the tagger computes for an article is the
\* set of topics with a keyword in the lowercased title and takeaways/summary,
\* an article with its text in the summary being tagged like one with it in
\* the takeaways.
C14_TopicsFromTitleAndText ==
    \A p \in Procs : \A k \in DOMAIN run[p].tagged :
        LET e == run[p].tagged[k]
        IN  Range(e.topics) = TopicsFromTakeawaysOrSummary[e.id]

\* C14, amended: the topic list the tagger computes for an article holds,
\* once each, exactly the topics with a keyword in the lowercased title and
\* takeaways; the summary is not read. The article "Effects of testosterone on
\* muscle strength in trans men" / "increased lean mass" gets {hrt_strength}.
C14_TopicsFromTitleAndTakeaways ==
    \A p \in Procs : \A k \in DOMAIN run[p].tagged :
        LET e == run[p].tagged[k]
        IN  /\ Range(e.topics) = TopicsFromTakeaways[e.id]
            /\ Len(e.topics) = Cardinality(Range(e.topics))
            /\ e.id = ArtHrt.id => Range(e.topics) = {"hrt_strength"}

\* C14 witness: the tagger went over the testosterone article and the article
\* whose keyword is in the summary; the first got hrt_strength, the second
\* nothing.
C14_Witness ==
    /\ run["p1"].tagged_ok
    /\ \E k \in DOMAIN run["p1"].tagged :
          /\ run["p1"].tagged[k].id = ArtHrt.id
          /\ run["p1"].tagged[k].topics = <<"hrt_strength">>
    /\ \E k \in DOMAIN run["p1"].tagged :
          /\ run["p1"].tagged[k].id = ArtSummary.id
          /\ run["p1"].tagged[k].topics = <<>>

----------------------------------------------------------------------------
(* Properties of the exercise topic inferencer. *)

\* a nullable text is, ignoring case, one of the words
IsOneOf(o, words) == o # None /\ Lower(o[1]) \in words

\* the condition of the n-th rule of the inferencer holds on ex
RuleFires(n, ex) ==
    CASE n = 1 -> IsOneOf(ex.pattern, {"hinge", "squat", "lunge", "carry", "gait"})
      [] n = 2 -> IsOneOf(ex.pattern, {"core"})
      [] n = 3 -> \/ IsOneOf(ex.goal, {"conditioning"})
                  \/ IsOneOf(ex.exercise_type, {"cardio", "plyometrics"})
      [] n = 4 -> IsOneOf(ex.goal, {"mobility", "recovery"})
      [] n = 5 -> /\ ex.body_parts # None
                  /\ \E w \in {"chest", "shoulder", "upper arm"} :
                        Contains(Lower(ex.body_parts[1]), w)
      [] n = 6 -> ex.binder_aware = Some(TRUE)
      [] n = 7 -> ex.pelvic_floor_safe = Some(FALSE)

\* the topics the n-th rule adds
RuleTopics(n) ==
    CASE n \in {1, 2} -> {"hrt_strength", "bone_health"}
      [] n = 3 -> {"cardio_risk"}
      [] n = 4 -> {"bone_health", "top_surgery"}
      [] n \in {5, 6} -> {"top_surgery"}
      [] n = 7 -> {"hrt_strength"}

Rules == 1..7

\* the union of the topics of the rules whose condition holds
RuleUnion(ex) == UNION {RuleTopics(n) : n \in {n \in Rules : RuleFires(n, ex)}}

ScenarioA ==
    [pattern |-> Some("squat"), goal |-> Some("strength"), exercise_type |-> None,
     body_parts |-> Some("legs"), binder_aware |-> Some(FALSE),
     pelvic_floor_safe |-> Some(TRUE)]

ScenarioE ==
    [pattern |-> None, goal |-> Some("mobility"), exercise_type |-> None,
     body_parts |-> Some(""), binder_aware |-> Some(FALSE),
     pelvic_floor_safe |-> Some(TRUE)]

C17_NoRuleNoTopic ==
    call.fn = "infer" /\ (\A n \in Rules : ~RuleFires(n, call.ex)) => call.result = {}

----------------------------------------------------------------------------
(* Properties of the research context builder. *)

\* some article of the list has a topic in common with the exercise topics
AnyArticleMatches(rows, topics) ==
    \E k \in DOMAIN rows : StoredSet(rows[k].topics) \cap topics # {}

\* the builder has nothing to build from
NoBasis(rows, topics) == topics = {} \/ ~AnyArticleMatches(rows, topics)

\* C18, as claimed: for every article list, topic list and max_articles the
\* builder returns ("", []) exactly when the topics are empty or no article
\* has a topic in common with them, and a non-empty text whenever an article
\* matches.
C18_EmptyIffNoMatch ==
    call.fn = "build" =>
        /\ call.result = <<"", <<>>>>
              <=> NoBasis(call.research_rows, call.exercise_topics)
        /\ ~NoBasis(call.research_rows, call.exercise_topics) => call.result[1] # ""

\* C18, amended: the same for every max_articles of 1 or more; for any
\* max_articles the builder returns ("", []) when the topics are empty or no
\* article matches, and a text it returns is either empty with no DOIs or
\* non-empty.
C18_EmptyIffNoMatchFromOne ==
    call.fn = "build" =>
        /\ call.max_articles >= 1 =>
              /\ call.result = <<"", <<>>>>
                    <=> NoBasis(call.research_rows, call.exercise_topics)
              /\ ~NoBasis(call.research_rows, call.exercise_topics)
                    => call.result[1] # ""
        /\ NoBasis(call.research_rows, call.exercise_topics)
              => call.result = <<"", <<>>>>
        /\ call.result[1] = "" => call.result[2] = <<>>

\* C18 witness: with max_articles 1 the first article does not match, the
\* second does and has no DOI: the text is not empty and the DOI list is.
C18_Witness ==
    /\ call.fn = "build"
    /\ call.max_articles = 1
    /\ Len(call.research_rows) = 2
    /\ ~AnyArticleMatches(<<call.research_rows[1]>>, call.exercise_topics)
    /\ AnyArticleMatches(<<call.research_rows[2]>>, call.exercise_topics)
    /\ call.result[1] # ""
    /\ call.result[2] = <<>>

----------------------------------------------------------------------------
(* Properties of the fatal errors. *)

\* a setting the module setup asserts is unset or empty in p's environment
MissingDependency(p) ==
    /\ run[p].pc # "idle"
    /\ \E n \in REQUIRED_ENV : run[p].env[n] \in {None, Some("")}

\* C19: a process started with a required setting unset or empty is over at
\* once: it made no research read or write, no exercise read, no existence
\* read, no generator call and no insert, and both tables are as it found them.
C19_MissingDependencyAborts ==
    \A p \in Procs :
        MissingDependency(p) =>
            /\ run[p].pc = "aborted"
            /\ run[p].trace = <<>>
            /\ run[p].tagged = <<>>
            /\ ~run[p].tagged_ok
            /\ run[p].research_rows = <<>>
            /\ run[p].exercises = <<>>
            /\ run[p].reported = None
            /\ research = run[p].research0
            /\ tips = run[p].tips0

\* C19 witness: the process was started without the generator's key over a
\* research table the tagger would have written to and a non-empty catalog.
C19_Witness ==
    /\ MissingDependency("p1")
    /\ run["p1"].env["OPENAI_API_KEY"] = None
    /\ run["p1"].pc = "aborted"
    /\ WritePoints(research) # {}
    /\ exercises_table # <<>>

\* the reads of the research or exercise store that raised in p's run
FailedReads(p) ==
    Entries(p, "research_read", {"raise"}) \cup Entries(p, "exercise_read", {"raise"})

\* C20: a run whose research read or exercise read raised is over with that
\* read: no existence read, generator call or insert was made, nothing is
\* reported, and the tips table is as the run found it.
C20_ReadFailureAborts ==
    \A p \in Procs : \A k \in FailedReads(p) :
        /\ run[p].pc = "aborted"
        /\ k = Len(run[p].trace)
        /\ Entries(p, "exists", ReadResults) = {}
        /\ Entries(p, "generate", Shapes) = {}
        /\ Entries(p, "insert", InsertResults) = {}
        /\ Entries(p, "outcome", Outcomes) = {}
        /\ run[p].reported = None
        /\ tips = run[p].tips0

\* C20 witness: the exercise read raised after the tagger had written topics,
\* with a non-empty catalog waiting.
C20_Witness ==
    /\ Entries("p1", "exercise_read", {"raise"}) # {}
    /\ run["p1"].tagged_ok
    /\ Writes("p1") > 0
    /\ exercises_table # <<>>

----------------------------------------------------------------------------
(* Properties of the tip store. *)

\* C21: the tips table only grows at its end: a step leaves every record that
\* was there in place and unchanged, and every record a step adds has
\* needs_review = true.
C21_TipStoreAppendOnly ==
    [][/\ Len(tips') >= Len(tips)
       /\ \A k \in DOMAIN tips : tips'[k] = tips[k]
       /\ \A k \in (Len(tips) + 1)..Len(tips') : tips'[k].needs_review]_vars

\* C21 witness: a record was inserted for a tuple that already had a record
\* with other content; both are in the table, both with needs_review = true.
C21_Witness ==
    /\ Len(tips) = 2
    /\ tips[1].exercise_id = tips[2].exercise_id
    /\ tips[1].tips # tips[2].tips
    /\ tips[1].needs_review /\ tips[2].needs_review

\* the articles of a list that have a topic in common with the exercise topics
Matching(rows, topics) ==
    SelectSeq(rows, LAMBDA r : StoredSet(r.topics) \cap topics # {})

\* the first n elements of a list, none when n is 0 or less
FirstN(s, n) == IF n <= 0 THEN <<>> ELSE SubSeq(s, 1, IF n < Len(s) THEN n ELSE Len(s))

\* C22, as claimed: for every article list, non-empty topic list and
\* max_articles, the selected articles are the first min(max_articles, number
\* of matching articles) matching articles in input order, never more than
\* max_articles of them (none for a max_articles below 1), and the context is
\* their lines in that order.
C22_FirstMatchesUpToMax ==
    call.fn = "build" /\ call.exercise_topics # {} =>
        /\ call.matched =
              FirstN(Matching(call.research_rows, call.exercise_topics),
                     call.max_articles)
        /\ Len(call.matched) <= (IF call.max_articles < 0 THEN 0 ELSE call.max_articles)
        /\ call.result[1] =
              Join("\n", [k \in DOMAIN call.matched |-> ContextLine(call.matched[k])])

\* the positions of a list of articles at which the article has a DOI
WithDoi(sel) == {k \in DOMAIN sel : sel[k].doi \notin {None, Some("")}}

\* C23: the DOI list is the DOIs of the selected articles that have one, in
\* selection order and with duplicates kept: the j-th entry is the DOI of the
\* j-th selected article with a DOI. It has no empty entry and is no longer
\* than the selection.
C23_DoisOfSelected ==
    call.fn = "build" =>
        LET sel  == call.matched
            dois == call.result[2]
        IN  /\ Len(dois) = Cardinality(WithDoi(sel))
            /\ \A k \in WithDoi(sel) :
                  dois[Cardinality({i \in WithDoi(sel) : i <= k})] = sel[k].doi[1]
            /\ \A j \in DOMAIN dois : dois[j] # ""
            /\ Len(dois) <= Len(sel)

\* C23 witness: two articles with the same DOI were selected and the DOI is
\* listed twice.
C23_Witness ==
    /\ call.fn = "build"
    /\ Len(call.matched) = 2
    /\ call.matched[1].doi = call.matched[2].doi
    /\ Len(call.result[2]) = 2
    /\ call.result[2][1] = call.result[2][2]

----------------------------------------------------------------------------
(* Properties of the order of processing, restarts and the limit. *)

\* the records added to the tips table since p's run started
InsertedInRun(p) == SubSeq(tips, Len(run[p].tips0) + 1, Len(tips))

\* C24: in a run the existence read for a position after the first comes
\* after the outcome of the position before it, the first read is for the
\* first position, and the records the run inserted are, in insertion order,
\* for exercises at increasing positions of the list.
C24_InOrder ==
    \A p \in Procs :
        run[p].pc # "idle" =>
            LET ins == Entries(p, "insert", {"ok"})
            IN  /\ \A k \in Entries(p, "exists", ReadResults) :
                      LET pos == run[p].trace[k].pos
                      IN  /\ pos \in DOMAIN run[p].exercises
                          /\ pos > 1 =>
                                \E o \in EntriesAt(p, pos - 1, "outcome", Outcomes) : o < k
                          /\ \A j \in Entries(p, "exists", ReadResults) :
                                j < k => run[p].trace[j].pos < pos
                /\ \A a, b \in ins : a < b => run[p].trace[a].pos < run[p].trace[b].pos
                /\ Len(InsertedInRun(p)) = Cardinality(ins)
                /\ \A k \in ins :
                      InsertedInRun(p)[Cardinality({a \in ins : a <= k})].exercise_id
                         = run[p].exercises[run[p].trace[k].pos].id

\* C24 witness: a run over two different exercises ended with both persisted,
\* and the table holds their records after the one that was there, in the
\* order of the list.
C24_Witness ==
    /\ run["p1"].pc = "done"
    /\ Len(run["p1"].tips0) = 1
    /\ Len(run["p1"].exercises) = 2
    /\ run["p1"].exercises[1].id # run["p1"].exercises[2].id
    /\ Persisted("p1") = 2
    /\ tips[2].exercise_id = run["p1"].exercises[1].id
    /\ tips[3].exercise_id = run["p1"].exercises[2].id

\* the first position of p's list that holds the exercise with this id
FirstPos(p, id) ==
    {pos \in DOMAIN run[p].exercises :
        /\ run[p].exercises[pos].id = id
        /\ \A j \in 1..(pos - 1) : run[p].exercises[j].id # id}

\* p's run is at the generator call for position pos, or has made it
Regenerated(p, pos) ==
    \/ EntriesAt(p, pos, "generate", Shapes) # {}
    \/ /\ run[p].idx = pos
       /\ \/ run[p].pc = "generate"
          \/ run[p].pc = "crashed" /\ run[p].stopped_at = "generate"

\* C25: with every run started after the one before it ended or was killed,
\* the tips table holds at most one record per exercise. In a run that follows
\* a killed one: an exercise the killed run was at (at its existence read, its
\* generator call or its insert) without a record in the table has no record
\* when the restart begins, is read as absent at its first visit and, having
\* topics and evidence, goes to the generator again; an exercise the killed
\* run had inserted is read as existing at every visit and ends as DUPLICATE
\* with no generator call and no insert.
C25_CrashRestartSafe ==
    /\ \A id \in ExerciseIds :
          Cardinality(RecordsFor(tips, id, population, context)) <= 1
    /\ \A p \in Procs :
          LET c == run[p].prev.crash
          IN  c.pc # "none" =>
                /\ c.pc \in {"generate", "insert"} => ~c.had
                /\ c.pc \in {"check", "generate", "insert"} /\ ~c.had =>
                      /\ RecordsFor(run[p].tips0, c.id, population, context) = {}
                      /\ \A pos \in FirstPos(p, c.id) :
                            /\ EntriesAt(p, pos, "exists", {"true"}) = {}
                            /\ /\ EntriesAt(p, pos, "exists", {"false"}) # {}
                               /\ ExTopics(run[p].exercises[pos]) # {}
                               /\ Built(run[p].research_rows,
                                        ExTopics(run[p].exercises[pos]))[1] # ""
                               => Regenerated(p, pos)
                /\ \A pos \in DOMAIN run[p].exercises :
                      run[p].exercises[pos].id \in c.inserted =>
                          /\ EntriesAt(p, pos, "exists", {"false"}) = {}
                          /\ EntriesAt(p, pos, "generate", Shapes) = {}
                          /\ EntriesAt(p, pos, "insert", InsertResults) = {}
                          /\ EntriesAt(p, pos, "exists", {"true"}) # {}
                                => EntriesAt(p, pos, "outcome", {"DUPLICATE"}) # {}

\* C25 witness: a run was killed after it had inserted the record of its first
\* exercise and between the generator call and the insert for its second; the
\* restart skipped the first as DUPLICATE, generated and inserted the second,
\* and ended.
C25_Witness ==
    /\ run["p1"].prev.crash.pc = "insert"
    /\ Cardinality(run["p1"].prev.crash.inserted) = 1
    /\ run["p1"].prev.crash.id \notin run["p1"].prev.crash.inserted
    /\ run["p1"].pc = "done"
    /\ EntriesAt("p1", 1, "outcome", {"DUPLICATE"}) # {}
    /\ EntriesAt("p1", 2, "outcome", {"PERSISTED"}) # {}
    /\ Cardinality(RecordsFor(tips, run["p1"].prev.crash.id, population, context)) = 1

\* the smaller of two numbers
Min(a, b) == IF a <= b THEN a ELSE b

\* the ids of the exercises of a list that have topics and, over these
\* research rows, a context
EligibleIds(exs, rows) ==
    {exs[k].id : k \in {k \in DOMAIN exs :
                          /\ ExTopics(exs[k]) # {}
                          /\ Built(rows, ExTopics(exs[k]))[1] # ""}}

\* the eligible exercises of p's list that had no record when p's run started
Unpersisted(p) ==
    {id \in EligibleIds(run[p].exercises, run[p].research_rows) :
        RecordsFor(run[p].tips0, id, population, context) = {}}

\* every exercise of the catalog with topics and a context has a record
Converged ==
    \A id \in EligibleIds(load_exercises(exercises_table, staging_table),
                           RelevantRows(TaggedTable(research))) :
        RecordsFor(tips, id, population, context) # {}

\* C26: with a limit of 1 or more, stores that answer and a generator that
\* returns a non-empty object, a run that ended has persisted
\* min(MAX_EXERCISES, number of eligible exercises without a record at its
\* start) exercises, the skipped ones using none of the limit and leaving the
\* tips table alone; a run started with every eligible exercise persisted
\* inserts nothing; and the repeated runs reach, for good, a state in which
\* every exercise with topics and a context has a record.
C26_Converges ==
    /\ [](\A p \in Procs :
            run[p].pc = "done" =>
                /\ Persisted(p) = Min(MAX_EXERCISES[1], Cardinality(Unpersisted(p)))
                /\ Len(tips) = Len(run[p].tips0) + Persisted(p)
                /\ Unpersisted(p) = {} => tips = run[p].tips0)
    /\ <>[]Converged

\* C26 witness: with a limit of 1 the second run skipped the exercise the first
\* run had persisted, persisted the next one and ended, and every eligible
\* exercise of a catalog with two of them has its record.
C26_Witness ==
    /\ MAX_EXERCISES = Some(1)
    /\ runs = 2
    /\ run["p1"].pc = "done"
    /\ EntriesAt("p1", 1, "outcome", {"DUPLICATE"}) # {}
    /\ EntriesAt("p1", 2, "outcome", {"PERSISTED"}) # {}
    /\ Cardinality(EligibleIds(run["p1"].exercises, run["p1"].research_rows)) = 2
    /\ Len(tips) = Len(run["p1"].tips0) + 1
    /\ Converged

\* the positions in p's history of the existence reads, generator calls and
\* inserts
Calls(p) ==
    Entries(p, "exists", ReadResults) \cup Entries(p, "generate", Shapes)
        \cup Entries(p, "insert", InsertResults)

\* C27: with a limit set, the counter of a run is never above MAX_EXERCISES
\* and the run has added at most MAX_EXERCISES records to the tips table; when
\* the counter is MAX_EXERCISES the run is not at an existence read, a
\* generator call or an insert, and it has made none of them after the insert
\* that brought the counter there.
C27_CounterWithinLimit ==
    \A p \in Procs :
        MAX_EXERCISES # None /\ run[p].pc # "idle" =>
            /\ run[p].processed_count <= MAX_EXERCISES[1]
            /\ Cardinality(Entries(p, "insert", {"ok"})) <= MAX_EXERCISES[1]
            /\ Len(tips) - Len(run[p].tips0) <= MAX_EXERCISES[1]
            /\ run[p].processed_count = MAX_EXERCISES[1] =>
                  /\ run[p].pc \notin {"check", "generate", "insert"}
                  /\ \A k \in Calls(p) :
                        \E m \in Entries(p, "insert", {"ok"}) : k <= m

\* C27 witness: with a limit of 1 and two exercises to generate for, the run
\* inserted for the first, made no call for the second and ended.
C27_Witness ==
    /\ MAX_EXERCISES = Some(1)
    /\ run["p1"].pc = "done"
    /\ Len(run["p1"].exercises) = 2
    /\ Cardinality(Unpersisted("p1")) = 2
    /\ run["p1"].processed_count = 1
    /\ run["p1"].idx = 2
    /\ Calls("p1") = EntriesAt("p1", 1, "exists", {"false"})
                        \cup EntriesAt("p1", 1, "generate", Shapes)
                        \cup EntriesAt("p1", 1, "insert", {"ok"})

====
